---- MODULE Spec2Model ----
(***************************************************************************)
(* Model of app.py, the close-approach dashboard: the query builder and    *)
(* fetcher (fetch_close_approaches), the normalizer (parse_data), the      *)
(* combine step of main (pd.concat + drop_duplicates), and main's session  *)
(* state and rendering, one script run per action.                         *)
(***************************************************************************)
EXTENDS Integers, Sequences, FiniteSets, TLC

(***************************************************************************)
(* Bounds of the model.                                                    *)
(***************************************************************************)
\* longest record list of a provider payload in the session model
MaxRows == 2
\* longest record list of a payload handed to parse_data / the combine step
MaxRecords == 2

(***************************************************************************)
(* Text helpers: strings are read one character at a time.                 *)
(***************************************************************************)
Ch(s, i) == SubSeq(s, i, i)

Digits == {"0", "1", "2", "3", "4", "5", "6", "7", "8", "9"}

DigitVal(c) ==
    CASE c = "0" -> 0 [] c = "1" -> 1 [] c = "2" -> 2 [] c = "3" -> 3
      [] c = "4" -> 4 [] c = "5" -> 5 [] c = "6" -> 6 [] c = "7" -> 7
      [] c = "8" -> 8 [] c = "9" -> 9

AllDigits(s) == \A i \in 1..Len(s) : Ch(s, i) \in Digits

RECURSIVE ToInt(_)
ToInt(s) ==
    IF Len(s) = 0 THEN 0
    ELSE 10 * ToInt(SubSeq(s, 1, Len(s) - 1)) + DigitVal(Ch(s, Len(s)))

\* positions of the character c in s
Positions(s, c) == {i \in 1..Len(s) : Ch(s, i) = c}

Min(S) == CHOOSE x \in S : \A y \in S : x <= y

\* s.split(c): the pieces of s between the occurrences of c
RECURSIVE Split(_, _)
Split(s, c) ==
    IF Positions(s, c) = {} THEN <<s>>
    ELSE LET p == Min(Positions(s, c))
         IN  <<SubSeq(s, 1, p - 1)>> \o Split(SubSeq(s, p + 1, Len(s)), c)

(***************************************************************************)
(* pd.to_numeric(..., errors='coerce') on one cell: a decimal literal       *)
(* (digits with at most one point) becomes its value, mantissa * 10^-exp    *)
(* in lowest terms; anything else becomes NaN.                             *)
(***************************************************************************)
NaN == [t |-> "nan", v |-> <<>>]

RECURSIVE Reduce(_, _)
Reduce(m, e) ==
    IF e > 0 /\ m % 10 = 0 THEN Reduce(m \div 10, e - 1) ELSE <<m, e>>

to_numeric(s) ==
    LET parts == Split(s, ".")
        ip    == parts[1]
        fp    == IF Len(parts) = 2 THEN parts[2] ELSE ""
    IN  IF /\ Len(parts) <= 2
           /\ AllDigits(ip) /\ AllDigits(fp)
           /\ Len(ip) + Len(fp) >= 1
        THEN [t |-> "num", v |-> Reduce(ToInt(ip \o fp), Len(fp))]
        ELSE NaN

(***************************************************************************)
(* pd.to_datetime(..., format='%Y-%b-%d %H:%M') on one cell: a timestamp,   *)
(* or no timestamp (ok = FALSE) when the text does not match the format.    *)
(***************************************************************************)
MonthNum(m) ==
    CASE m = "Jan" -> 1 [] m = "Feb" -> 2 [] m = "Mar" -> 3 [] m = "Apr" -> 4
      [] m = "May" -> 5 [] m = "Jun" -> 6 [] m = "Jul" -> 7 [] m = "Aug" -> 8
      [] m = "Sep" -> 9 [] m = "Oct" -> 10 [] m = "Nov" -> 11 [] m = "Dec" -> 12
      [] OTHER -> 0

IsLeap(y) == (y % 4 = 0 /\ y % 100 # 0) \/ y % 400 = 0

DaysIn(y, m) ==
    IF m = 2 THEN (IF IsLeap(y) THEN 29 ELSE 28)
    ELSE IF m \in {4, 6, 9, 11} THEN 30 ELSE 31

\* one or two digits with a value in lo..hi
Num2(s, lo, hi) ==
    /\ Len(s) \in {1, 2}
    /\ AllDigits(s)
    /\ ToInt(s) >= lo /\ ToInt(s) <= hi

to_datetime(s) ==
    LET halves == Split(s, " ")
        dp     == IF Len(halves) = 2 THEN Split(halves[1], "-") ELSE <<>>
        tp     == IF Len(halves) = 2 THEN Split(halves[2], ":") ELSE <<>>
        shape  == /\ Len(dp) = 3 /\ Len(tp) = 2
                  /\ Len(dp[1]) = 4 /\ AllDigits(dp[1])
                  /\ MonthNum(dp[2]) # 0
                  /\ Num2(dp[3], 1, DaysIn(ToInt(dp[1]), MonthNum(dp[2])))
                  /\ Num2(tp[1], 0, 23)
                  /\ Num2(tp[2], 0, 59)
    IN  IF shape
        THEN [ok |-> TRUE,
              cell |-> [t |-> "time",
                        v |-> <<ToInt(dp[1]), MonthNum(dp[2]), ToInt(dp[3]),
                                ToInt(tp[1]), ToInt(tp[2])>>]]
        ELSE [ok |-> FALSE, cell |-> NaN]

(***************************************************************************)
(* Python values.  A dict is a function on its keys; d.get(k, default).     *)
(***************************************************************************)
None == [None |-> TRUE]

Get(d, k, default) == IF k \in DOMAIN d THEN d[k] ELSE default

Range(s) == {s[i] : i \in 1..Len(s)}

\* the first position of x in the sequence s
IndexOf(s, x) == Min({i \in 1..Len(s) : s[i] = x})

(***************************************************************************)
(* pandas values.  A DataFrame is its ordered column names and its ordered  *)
(* rows, a row being a function from column name to cell.  A cell is tagged *)
(* text ("str"), a number ("num"), a timestamp ("time") or NaN.             *)
(***************************************************************************)
Str(s) == [t |-> "str", v |-> s]

\* pd.DataFrame()
EmptyFrame == [columns |-> <<>>, rows |-> <<>>]

\* DataFrame.empty: any axis of length 0
empty(fd) == Len(fd.columns) = 0 \/ Len(fd.rows) = 0

\* a cell comparison under which NaN differs from NaN, as in arithmetic
CellEq_nan_differs(a, b) == a.t = b.t /\ a.t # "nan" /\ a.v = b.v

\* equality of two cells as drop_duplicates sees it: NaN matches NaN
CellEq(a, b) == a.t = b.t /\ (a.t = "nan" \/ a.v = b.v)

RowEq(r1, r2) ==
    /\ DOMAIN r1 = DOMAIN r2
    /\ \A c \in DOMAIN r1 : CellEq(r1[c], r2[c])

\* pd.DataFrame(records, columns=fields): zip the field names with each
\* record's positional values; every record must carry one value per field
ShapeOk(records, fields) == \A i \in 1..Len(records) : Len(records[i]) = Len(fields)

DataFrame(records, fields) ==
    [columns |-> fields,
     rows    |-> [i \in 1..Len(records) |->
                    [c \in Range(fields) |-> Str(records[i][IndexOf(fields, c)])]]]

DateCell(s) == to_datetime(s).cell

\* line 70: fd['cd'] = pd.to_datetime(fd['cd'], ...) on every row
DateColumn(fd) ==
    [fd EXCEPT !.rows = [i \in 1..Len(fd.rows) |->
                            [fd.rows[i] EXCEPT !["cd"] = DateCell(@.v)]]]

\* lines 71-73: fd[col] = pd.to_numeric(fd[col], errors='coerce') on every row
NumericColumn(fd, col) ==
    [fd EXCEPT !.rows = [i \in 1..Len(fd.rows) |->
                            [fd.rows[i] EXCEPT ![col] = to_numeric(@.v)]]]

(***************************************************************************)
(* Streamlit messages shown during a script run, in order.                  *)
(***************************************************************************)
Msg(level, what) == [level |-> level, what |-> what]

NoApproachesWarning == Msg("warning", "No close approached found")

(***************************************************************************)
(* parse_data(data): the warning and an empty DataFrame for no data or a    *)
(* zero/absent count; otherwise the typed DataFrame.  exc names the         *)
(* exception that leaves the function, "none" on a normal return.           *)
(***************************************************************************)
NumericColumns == <<"dist", "v_rel", "v_inf">>

RECURSIVE CoerceNumeric(_, _)
CoerceNumeric(fd, k) ==
    IF k = 0 THEN fd
    ELSE NumericColumn(CoerceNumeric(fd, k - 1), NumericColumns[k])

\* a conversion that also drops the rows left with a NaN
Typed_dropna(fd) ==
    IF \E i \in 1..Len(fd.rows) : ~to_datetime(fd.rows[i]["cd"].v).ok
    THEN [exc |-> "ValueError", fd |-> EmptyFrame, shown |-> <<>>]
    ELSE [exc   |-> "none",
          fd    |-> [fd EXCEPT !.rows = SelectSeq(
                        CoerceNumeric(DateColumn(fd), Len(NumericColumns)).rows,
                        LAMBDA r : \A c \in Range(NumericColumns) : r[c].t # "nan")],
          shown |-> <<>>]

\* lines 70-73 on the DataFrame of line 67: the date column first, which
\* raises on a value that does not match the format, then the three
\* numeric columns
Typed(fd) ==
    IF \E i \in 1..Len(fd.rows) : ~to_datetime(fd.rows[i]["cd"].v).ok
    THEN [exc |-> "ValueError", fd |-> EmptyFrame, shown |-> <<>>]
    ELSE [exc   |-> "none",
          fd    |-> CoerceNumeric(DateColumn(fd), Len(NumericColumns)),
          shown |-> <<>>]

\* lines 65-75
Parsed(fields, records) ==
    IF ~ShapeOk(records, fields)
    THEN [exc |-> "ValueError", fd |-> EmptyFrame, shown |-> <<>>]
    ELSE IF ~({"cd"} \cup Range(NumericColumns) \subseteq Range(fields))
    THEN [exc |-> "KeyError", fd |-> EmptyFrame, shown |-> <<>>]
    ELSE Typed(DataFrame(records, fields))

\* a parse_data that warns for a zero count only, not for a failed fetch
parse_data_quiet(data) ==
    IF data = None
    THEN [exc |-> "none", fd |-> EmptyFrame, shown |-> <<>>]
    ELSE IF Get(data, "count", 0) = 0
    THEN [exc |-> "none", fd |-> EmptyFrame, shown |-> <<NoApproachesWarning>>]
    ELSE Parsed(Get(data, "fields", <<>>), Get(data, "data", <<>>))

parse_data(data) ==
    IF data = None \/ Get(data, "count", 0) = 0
    THEN [exc |-> "none", fd |-> EmptyFrame, shown |-> <<NoApproachesWarning>>]
    ELSE Parsed(Get(data, "fields", <<>>), Get(data, "data", <<>>))

(***************************************************************************)
(* The combine step of main: pd.concat([a, b], ignore_index=True), then     *)
(* drop_duplicates(inplace=True).                                          *)
(***************************************************************************)
\* the columns of a, then the columns only b has
UnionColumns(a, b) == a.columns \o SelectSeq(b.columns, LAMBDA c : c \notin Range(a.columns))

\* a row widened to the columns cols, NaN where it has no value
Widen(row, cols) == [c \in Range(cols) |-> IF c \in DOMAIN row THEN row[c] ELSE NaN]

Stack(a, b, cols) ==
    [columns |-> cols,
     rows    |-> [i \in 1..Len(a.rows) |-> Widen(a.rows[i], cols)]
                 \o [i \in 1..Len(b.rows) |-> Widen(b.rows[i], cols)]]

concat(a, b) == Stack(a, b, UnionColumns(a, b))

\* the positions whose row equals no later row (keep='last')
LastOccurrences(rows) ==
    {i \in 1..Len(rows) : \A j \in (i + 1)..Len(rows) : ~RowEq(rows[j], rows[i])}

\* the positions whose row equals no earlier row (keep='first')
FirstOccurrences(rows) ==
    {i \in 1..Len(rows) : \A j \in 1..(i - 1) : ~RowEq(rows[j], rows[i])}

RECURSIVE Pick(_, _)
\* the rows at the positions keep, in their original order, from position k on
Pick(rows, keep) ==
    IF keep = {} THEN <<>>
    ELSE <<rows[Min(keep)]>> \o Pick(rows, keep \ {Min(keep)})

drop_duplicates(fd) == [fd EXCEPT !.rows = Pick(fd.rows, FirstOccurrences(fd.rows))]

combine(fd_neo, fd_comet) == drop_duplicates(concat(fd_neo, fd_comet))

(***************************************************************************)
(* fetch_close_approaches.  A provider response is ok (a JSON payload), an  *)
(* HTTP error (whose body may or may not be JSON) or a transport failure.   *)
(* The result: exc, the exception that leaves the function ("none" on a     *)
(* return); ret, the returned value; sent, the requests issued; shown, the  *)
(* messages displayed.                                                     *)
(***************************************************************************)
BODY_CODES ==
    [Mercury |-> "Merc", Venus |-> "Venus", Earth |-> "Earth", Mars |-> "Mars",
     Jupiter |-> "Juptr", Saturn |-> "Satrn", Uranus |-> "Urnus",
     Neptune |-> "Neptn", Moon |-> "Moon"]

url == "https://ssd-api.jpl.nasa.gov/cad.api"

\* the names bound inside fetch_close_approaches when its elif runs: its
\* parameters and locals, and the module's globals
BoundNames ==
    {"body_code", "min_date", "max_date", "max_dist", "dist_unit", "my_limit",
     "object_type", "url", "my_params",
     "st", "requests", "pd", "px", "datetime", "timedelta", "sys", "io",
     "BODY_CODES", "fetch_close_approaches", "parse_data",
     "visualize_close_approaches", "main"}

\* the name the elif condition of line 38 reads
ElifName == "object_tye"

\* lines 27-33
my_params(body_code, min_date, max_date, max_dist, dist_unit, my_limit) ==
    [k \in {"body", "date-min", "date-max", "dist-max", "limit"} |->
        CASE k = "body"     -> body_code
          [] k = "date-min" -> min_date
          [] k = "date-max" -> max_date
          [] k = "dist-max" -> max_dist \o dist_unit
          [] k = "limit"    -> my_limit]

\* d[key] = value
With(d, key, value) ==
    [k \in DOMAIN d \cup {key} |-> IF k = key THEN value ELSE d[k]]

\* lines 42-57: the request and the classification of its outcome
Answered(sent, response) ==
        CASE response.kind = "ok" ->
               [exc |-> "none", ret |-> response.body, sent |-> sent, shown |-> <<>>]
          [] response.kind = "http_error" ->
               [exc |-> "none", ret |-> None, sent |-> sent,
                shown |-> <<Msg("error", "HTTP error occurred"),
                            IF response.json
                            THEN Msg("error", "Error Details")
                            ELSE Msg("error", "No additional error information provided")>>]
          [] response.kind = "transport_error" ->
               [exc |-> "none", ret |-> None, sent |-> sent,
                shown |-> <<Msg("error", "Error fetching data from API")>>]

get(params, response) == Answered(<<[url |-> url, params |-> params]>>, response)

fetch_close_approaches(body_code, min_date, max_date, max_dist, dist_unit, my_limit, object_type, response) ==
    IF object_type = "NEO"
    THEN get(With(my_params(body_code, min_date, max_date, max_dist, dist_unit, my_limit), "neo", "true"), response)
    ELSE IF ElifName \notin BoundNames
    THEN [exc |-> "NameError", ret |-> None, sent |-> <<>>, shown |-> <<>>]
    ELSE IF object_type = "Comet"
    THEN get(With(my_params(body_code, min_date, max_date, max_dist, dist_unit, my_limit), "comet", "true"), response)
    ELSE get(my_params(body_code, min_date, max_date, max_dist, dist_unit, my_limit), response)

(***************************************************************************)
(* main, lines 214-253: the fetch action.  w holds the sidebar values of    *)
(* this run; r1 and r2 are the provider's answers to the first and second   *)
(* request.  steps lists the pipeline steps that completed, in order.       *)
(***************************************************************************)
Aborted(exc, sent, shown, steps) ==
    [exc |-> exc, fd |-> EmptyFrame, sent |-> sent, shown |-> shown, steps |-> steps]

Call(w, object_type, response) ==
    fetch_close_approaches(BODY_CODES[w.body_display], w.min_date, w.max_date, w.max_dist, w.dist_unit, w.limit, object_type, response)

\* lines 216-227: one request, one parse
Single2(data, p) ==
    IF p.exc # "none"
    THEN Aborted(p.exc, data.sent, data.shown \o p.shown, <<"fetch">>)
    ELSE [exc   |-> "none", fd |-> p.fd, sent |-> data.sent,
          shown |-> data.shown \o p.shown,
          steps |-> <<"fetch", "parse">>]

Single1(data) ==
    IF data.exc # "none"
    THEN Aborted(data.exc, data.sent, data.shown, <<>>)
    ELSE Single2(data, parse_data(data.ret))

FetchSingle(w, r1) == Single1(Call(w, w.object_type, r1))

\* lines 228-253: two requests one after the other, two parses, the combine step
Both4(data_neo, data_comet, fd_neo, fd_comet) ==
    IF fd_comet.exc # "none"
    THEN Aborted(fd_comet.exc, data_neo.sent \o data_comet.sent,
                 data_neo.shown \o data_comet.shown \o fd_neo.shown \o fd_comet.shown,
                 <<"fetch", "fetch", "parse">>)
    ELSE [exc   |-> "none",
          fd    |-> combine(fd_neo.fd, fd_comet.fd),
          sent  |-> data_neo.sent \o data_comet.sent,
          shown |-> data_neo.shown \o data_comet.shown \o fd_neo.shown \o fd_comet.shown,
          steps |-> <<"fetch", "fetch", "parse", "parse", "combine">>]

Both3(data_neo, data_comet, fd_neo) ==
    IF fd_neo.exc # "none"
    THEN Aborted(fd_neo.exc, data_neo.sent \o data_comet.sent,
                 data_neo.shown \o data_comet.shown \o fd_neo.shown, <<"fetch", "fetch">>)
    ELSE Both4(data_neo, data_comet, fd_neo, parse_data(data_comet.ret))

Both2(data_neo, data_comet) ==
    IF data_comet.exc # "none"
    THEN Aborted(data_comet.exc, data_neo.sent \o data_comet.sent,
                 data_neo.shown \o data_comet.shown, <<"fetch">>)
    ELSE Both3(data_neo, data_comet, parse_data(data_neo.ret))

Both1(w, data_neo, r2) ==
    IF data_neo.exc # "none"
    THEN Aborted(data_neo.exc, data_neo.sent, data_neo.shown, <<>>)
    ELSE Both2(data_neo, Call(w, "Comet", r2))

FetchBoth(w, r1, r2) == Both1(w, Call(w, "NEO", r1), r2)

Fetch(w, r1, r2) ==
    IF w.object_type \in {"NEO", "Comet"} THEN FetchSingle(w, r1) ELSE FetchBoth(w, r1, r2)

(***************************************************************************)
(* main, lines 255-265: what the fetch action stores in st.session_state.   *)
(***************************************************************************)
\* a store whose empty branch replaces the row set alone
Store_rows_only(session, w, fd) ==
    IF ~empty(fd)
    THEN With(With(With(session, "fd", fd), "body_display", w.body_display), "dist_unit", w.dist_unit)
    ELSE With(session, "fd", EmptyFrame)

Store(session, w, fd) ==
    IF ~empty(fd)
    THEN With(With(With(session, "fd", fd), "body_display", w.body_display), "dist_unit", w.dist_unit)
    ELSE With(With(With(session, "fd", EmptyFrame), "body_display", w.body_display), "dist_unit", w.dist_unit)

(***************************************************************************)
(* main, lines 267-304, and visualize_close_approaches: what a run renders  *)
(* from st.session_state.                                                  *)
(***************************************************************************)
TableColumns == <<"des", "cd", "dist", "v_rel", "v_inf">>

\* fd[cols]: the listed columns, in the listed order
Project(fd, cols) ==
    [columns |-> cols,
     rows    |-> [i \in 1..Len(fd.rows) |-> [c \in Range(cols) |-> fd.rows[i][c]]]]

\* lines 275-281: the table, its distance column labelled with the unit
dataframe(fd, dist_unit) == [frame |-> Project(fd, TableColumns), unit |-> dist_unit]

\* an export of the displayed columns only
to_csv_displayed(fd) ==
    [header |-> TableColumns,
     lines  |-> [i \in 1..Len(fd.rows) |-> [j \in 1..Len(TableColumns) |-> fd.rows[i][TableColumns[j]]]]]

\* line 284: fd.to_csv(index=False): a header line and one line per row, each
\* listing the DataFrame's columns in their order
to_csv(fd) ==
    [header |-> fd.columns,
     lines  |-> [i \in 1..Len(fd.rows) |-> [j \in 1..Len(fd.columns) |-> fd.rows[i][fd.columns[j]]]]]

\* lines 78-112: the scatter plot; nothing is drawn for an empty DataFrame
visualize_close_approaches(fd, body, session) ==
    IF empty(fd) THEN [drawn |-> FALSE, unit |-> "", title |-> ""]
    ELSE [drawn |-> TRUE, unit |-> Get(session, "dist_unit", "AU"), title |-> body]

Nothing == [shown |-> FALSE]

Render(session, fetch_data) ==
    IF "fd" \in DOMAIN session /\ ~empty(session["fd"])
    THEN IF ~(Range(TableColumns) \subseteq Range(session["fd"].columns))
         THEN [exc |-> "KeyError", out |-> Nothing, shown |-> <<>>]
         ELSE [exc   |-> "none",
               out   |-> [shown |-> TRUE,
                          table |-> dataframe(session["fd"], session["dist_unit"]),
                          csv   |-> to_csv(session["fd"]),
                          chart |-> visualize_close_approaches(session["fd"], session["body_display"], session)],
               shown |-> <<>>]
    ELSE [exc   |-> "none", out |-> Nothing,
          shown |-> IF fetch_data
                    THEN <<Msg("info", "No data available to display")>>
                    ELSE <<Msg("info", "Awaiting your search parameters")>>]

(***************************************************************************)
(* main: one run of the script.  An exception ends the run where it is      *)
(* raised; what st.session_state held before is kept.                      *)
(***************************************************************************)
Found == Msg("success", "Found close approaches")

NoFetch == [exc |-> "none", fd |-> EmptyFrame, sent |-> <<>>, shown |-> <<>>, steps |-> <<>>]

\* lines 267-304 done: r is what they rendered
Main3(w, f, stored, r) ==
    [exc     |-> r.exc,
     fd      |-> f.fd,
     session |-> stored,
     sent    |-> f.sent,
     shown   |-> f.shown \o (IF w.fetch_data /\ ~empty(f.fd) THEN <<Found>> ELSE <<>>) \o r.shown,
     steps   |-> f.steps \o (IF w.fetch_data THEN <<"store">> ELSE <<>>)
                         \o (IF r.exc = "none" THEN <<"render">> ELSE <<>>),
     out     |-> r.out]

\* lines 255-265 done: stored is st.session_state after them
Main2(w, f, stored) == Main3(w, f, stored, Render(stored, w.fetch_data))

\* lines 214-253 done: f is their outcome
Main1(session, w, f) ==
    IF f.exc # "none"
    THEN [exc |-> f.exc, fd |-> f.fd, session |-> session, sent |-> f.sent,
          shown |-> f.shown, steps |-> f.steps, out |-> Nothing]
    ELSE Main2(w, f, IF w.fetch_data THEN Store(session, w, f.fd) ELSE session)

main(session, w, r1, r2) ==
    Main1(session, w, IF w.fetch_data THEN Fetch(w, r1, r2) ELSE NoFetch)

(***************************************************************************)
(* The provider's answers and the sidebar values the model draws from.      *)
(***************************************************************************)
\* the field list of a provider payload, with a field the dashboard passes through
ProviderFields == <<"des", "orbit_id", "cd", "dist", "v_rel", "v_inf">>

\* a provider that lists only the displayed fields, date first
ShortFields == <<"cd", "des", "dist", "v_rel", "v_inf">>

Record(des, orbit_id, cd, dist, v_rel, v_inf) ==
    [des |-> des, orbit_id |-> orbit_id, cd |-> cd, dist |-> dist, v_rel |-> v_rel, v_inf |-> v_inf]

\* a record's values in the order of the field list
Positional(rec, fields) == [j \in 1..Len(fields) |-> rec[fields[j]]]

\* the sequences over S of length at most n
SeqsUpTo(S, n) == UNION {[1..k -> S] : k \in 0..n}

\* a payload with a count: the count, the field list and the records
Payload(fields, recs) ==
    [count |-> Len(recs), fields |-> fields,
     data  |-> [i \in 1..Len(recs) |-> Positional(recs[i], fields)]]

\* a payload for no results: a zero count, or no count at all
ZeroPayloads == {[count |-> 0], [signature |-> "1.5"]}

Ok(body) == [kind |-> "ok", json |-> TRUE, body |-> body]

Failures ==
    {[kind |-> "http_error", json |-> TRUE, body |-> None],
     [kind |-> "http_error", json |-> FALSE, body |-> None],
     [kind |-> "transport_error", json |-> FALSE, body |-> None]}

\* what kind of answer a response is
Class(r) ==
    IF r.kind # "ok" THEN r.kind
    ELSE IF Get(r.body, "count", 0) = 0 THEN "ok_empty" ELSE "ok_rows"

\* a record as the provider documents it, and one whose date is written
\* with a numeric month
SessionRecords ==
    {Record("2025 AB", "12", "2025-Jan-15 03:20", "0.0123", "7.5", "7.4"),
     Record("C/2024 X1", "3", "2025-01-15 03:20", "N/A", "12", "11.9")}

Responses ==
    Failures
    \cup {Ok(b) : b \in ZeroPayloads}
    \cup {Ok(Payload(f, recs)) : f \in {ProviderFields, ShortFields},
                                 recs \in SeqsUpTo(SessionRecords, MaxRows) \ {<<>>}}

Bodies == {"Earth", "Mars"}

\* line 206: the default of the result limit
DefaultLimit == 100

\* line 185
default_max_dist(dist_unit) == IF dist_unit = "AU" THEN "0.05" ELSE "10"

\* the sidebar values of a run, the text and date inputs left at their defaults
Widgets(fetch_data, body_display, dist_unit, object_type) ==
    [fetch_data |-> fetch_data, body_display |-> body_display, dist_unit |-> dist_unit,
     object_type |-> object_type, max_dist |-> default_max_dist(dist_unit),
     limit |-> DefaultLimit, min_date |-> "2025-01-01", max_date |-> "2025-03-02"]

\* lines 132, 182, 197: the widgets' defaults
Defaults == Widgets(FALSE, "Earth", "AU", "NEO")

(***************************************************************************)
(* State.  st.session_state, and what the last run of the script read,      *)
(* sent, was answered, showed and rendered.  op, arg and res hold a call of *)
(* parse_data or of the combine step on its own.                           *)
(***************************************************************************)
VARIABLES session_state, widgets, fd, exc, sent, answers, shown, steps, out, op, arg, res

vars == <<session_state, widgets, fd, exc, sent, answers, shown, steps, out, op, arg, res>>

EmptySession == [k \in {} |-> None]

NoAnswer == [kind |-> "none", json |-> FALSE, body |-> None]

\* the state a run of main leaves
Ran(w, r1, r2) ==
    \E m \in {main(session_state, w, r1, r2)} :
        /\ session_state' = m.session
        /\ widgets' = w
        /\ fd' = m.fd
        /\ exc' = m.exc
        /\ sent' = m.sent
        /\ answers' = [i \in 1..Len(m.sent) |-> Class(<<r1, r2>>[i])]
        /\ shown' = m.shown
        /\ steps' = m.steps
        /\ out' = m.out

\* whether the second call of the "Both" branch reaches its request
SecondRequest(w) ==
    /\ w.object_type = "Both"
    /\ Call(w, "Comet", NoAnswer).sent # <<>>

\* the page is opened: the script runs once with the defaults, nothing clicked
Opened ==
    \E m \in {main(EmptySession, Defaults, NoAnswer, NoAnswer)} :
        /\ session_state = m.session
        /\ widgets = Defaults
        /\ fd = m.fd
        /\ exc = m.exc
        /\ sent = m.sent
        /\ answers = <<>>
        /\ shown = m.shown
        /\ steps = m.steps
        /\ out = m.out

Init == Opened /\ op = "none" /\ arg = <<>> /\ res = <<>>

\* a sidebar value changes: the script reruns, the button not clicked
Rerun ==
    \E b \in Bodies, u \in {"AU", "LD"}, t \in {"NEO", "Comet", "Both"} :
        /\ \E w \in {Widgets(FALSE, b, u, t)} : Ran(w, NoAnswer, NoAnswer)
        /\ UNCHANGED <<op, arg, res>>

\* the fetch button is clicked: the script reruns with fetch_data set
Click ==
    \E b \in Bodies, u \in {"AU", "LD"}, t \in {"NEO", "Comet", "Both"} :
        /\ \E w \in {Widgets(TRUE, b, u, t)}, r1 \in Responses :
              \E r2 \in (IF SecondRequest(w) THEN Responses ELSE {NoAnswer}) :
                Ran(w, r1, r2)
        /\ UNCHANGED <<op, arg, res>>

Next == Rerun \/ Click

Spec == Init /\ [][Next]_vars

(***************************************************************************)
(* parse_data on its own, over the payloads a provider can send.            *)
(***************************************************************************)
NormalizeRecords ==
    {Record("2025 AB", "12", cd, dist, v_rel, v_inf) :
        cd    \in {"2025-Jan-15 03:20", "2025-Feb-1 3:05", "2025-01-15 03:20"},
        dist  \in {"0.0123", "N/A"},
        v_rel \in {"7.5", "fast"},
        v_inf \in {"7.50", ""}}

\* payloads that break the provider's data model: a record shorter than the
\* field list, a field list without the date
MalformedPayloads ==
    {[count |-> 1, fields |-> ProviderFields, data |-> <<<<"2025 AB", "12">>>>],
     [count |-> 1, fields |-> <<"des", "dist", "v_rel", "v_inf">>,
      data |-> <<<<"2025 AB", "0.0123", "7.5", "7.4">>>>]}

NormalizeInputs ==
    {None} \cup ZeroPayloads \cup MalformedPayloads
    \cup {Payload(f, recs) : f \in {ProviderFields, ShortFields},
                             recs \in SeqsUpTo(NormalizeRecords, MaxRecords) \ {<<>>}}

InitNormalize == Opened /\ op = "input" /\ arg \in NormalizeInputs /\ res = <<>>

Normalize ==
    /\ op = "input"
    /\ res' = parse_data(arg)
    /\ op' = "parse_data"
    /\ UNCHANGED <<session_state, widgets, fd, exc, sent, answers, shown, steps, out, arg>>

SpecNormalize == InitNormalize /\ [][Normalize]_vars

(***************************************************************************)
(* The combine step on its own, over pairs of row sets parse_data produces  *)
(* from one field list.                                                    *)
(***************************************************************************)
\* two records that differ as text and agree once typed, one whose distance
\* is not a number, and a comet
CombineRecords ==
    {Record("2025 AB", "12", "2025-Jan-15 03:20", "0.5", "7.5", "7.4"),
     Record("2025 AB", "12", "2025-Jan-15 3:20", "0.50", "7.5", "7.4"),
     Record("433", "659", "2025-Feb-1 12:05", "N/A", "5", "4.9"),
     Record("C/2024 X1", "3", "2025-Mar-09 23:59", "0.25", "12", "11.9")}

RowSets == {parse_data(Payload(ProviderFields, recs)).fd : recs \in SeqsUpTo(CombineRecords, MaxRecords)}

InitCombine == Opened /\ op = "input" /\ arg \in RowSets \X RowSets /\ res = <<>>

Combine ==
    /\ op = "input"
    /\ res' = combine(arg[1], arg[2])
    /\ op' = "combine"
    /\ UNCHANGED <<session_state, widgets, fd, exc, sent, answers, shown, steps, out, arg>>

SpecCombine == InitCombine /\ [][Combine]_vars

(***************************************************************************)
(* Properties.                                                             *)
(***************************************************************************)
\* the object-type flags among the query parameters
FlagsOf(params) == DOMAIN params \cap {"neo", "comet"}

Errors(msgs) == \E i \in 1..Len(msgs) : msgs[i].level = "error"

Warned(msgs) == \E i \in 1..Len(msgs) : msgs[i] = NoApproachesWarning

Failed(class) == class \in {"http_error", "transport_error"}

\* a payload that follows the provider's data model: a positive count, that
\* many records, each with one value per field, the typed fields present
Conforming(data) ==
    /\ {"count", "fields", "data"} \subseteq DOMAIN data
    /\ data.count > 0
    /\ Len(data.data) = data.count
    /\ ShapeOk(data.data, data.fields)
    /\ {"cd"} \cup Range(NumericColumns) \subseteq Range(data.fields)

\* the text of field c in record i of the payload
Raw(data, i, c) == data.data[i][IndexOf(data.fields, c)]

\* well-formed records: every date is written YYYY-Mon-DD HH:MM
WellFormed(data) ==
    /\ Conforming(data)
    /\ \A i \in 1..Len(data.data) : to_datetime(Raw(data, i, "cd")).ok

\* the row a record stands for: its date as a timestamp, its numeric fields as
\* numbers or NaN, every other field as its text
RowFrom(data, i) ==
    [c \in Range(data.fields) |->
        IF c = "cd" THEN to_datetime(Raw(data, i, c)).cell
        ELSE IF c \in Range(NumericColumns) THEN to_numeric(Raw(data, i, c))
        ELSE Str(Raw(data, i, c))]

NoRepeats(rows) == \A i, j \in 1..Len(rows) : i # j => rows[i] # rows[j]

\* whether the first rows of out are the rows of a, one for one
StartsWith(combined, a) ==
    /\ Len(combined.rows) >= Len(a.rows)
    /\ \A i \in 1..Len(a.rows) : combined.rows[i] = a.rows[i]

\* C1: every fetch for one object type issues its request, and the query
\* parameters of that request carry exactly one flag, keyed by the type and
\* set to 'true': neo for NEO and no comet key, comet for Comet and no neo key.
C1_OneFlagPerObjectType ==
    (widgets.fetch_data /\ widgets.object_type \in {"NEO", "Comet"}) =>
        /\ Len(sent) = 1
        /\ FlagsOf(sent[1].params) = {IF widgets.object_type = "NEO" THEN "neo" ELSE "comet"}
        /\ \A k \in FlagsOf(sent[1].params) : sent[1].params[k] = "true"

\* C2, as claimed: whatever rowsA and rowsB are, the output of the combine
\* step starts with the rows of rowsA, one for one.
C2_FirstOperandVerbatim == op = "combine" => StartsWith(res, arg[1])

\* C2, amended: when rowsA holds no repeated row, the output of the combine
\* step starts with the rows of rowsA, one for one.
C2_DistinctFirstOperandVerbatim ==
    (op = "combine" /\ NoRepeats(arg[1].rows)) => StartsWith(res, arg[1])

\* rowsA of two distinct rows, one of them repeated in rowsB and removed
C2_Witness ==
    /\ op = "combine"
    /\ Len(arg[1].rows) = 2 /\ NoRepeats(arg[1].rows)
    /\ \E j \in 1..Len(arg[2].rows) : arg[2].rows[j] = arg[1].rows[2]
    /\ Len(res.rows) < Len(arg[1].rows) + Len(arg[2].rows)
    /\ StartsWith(res, arg[1])

\* C3, as claimed: a failed fetch shows an error and never the 'no close
\* approaches found' warning; a successful answer with a zero or absent count
\* shows the warning and never an error.
C3_SignalsExclusive ==
    (widgets.fetch_data /\ Len(answers) >= 1 /\ "parse" \in Range(steps)) =>
        /\ Failed(answers[1]) => (Errors(shown) /\ ~Warned(shown))
        /\ answers[1] = "ok_empty" => (Warned(shown) /\ ~Errors(shown))

\* C3, amended: in a fetch-and-parse cycle a failed fetch shows an error and,
\* from parse_data on the absent payload, the 'no close approaches found'
\* warning as well; a successful answer with a zero or absent count shows the
\* warning and never an error; an answer with rows shows neither.
C3_SignalsByClass ==
    (widgets.fetch_data /\ Len(answers) >= 1 /\ "parse" \in Range(steps)) =>
        /\ Failed(answers[1]) => (Errors(shown) /\ Warned(shown))
        /\ answers[1] = "ok_empty" => (Warned(shown) /\ ~Errors(shown))
        /\ answers[1] = "ok_rows" => (~Warned(shown) /\ ~Errors(shown))

\* a run whose request failed at the transport and whose parse then warned
C3_Witness ==
    /\ widgets.fetch_data
    /\ answers = <<"transport_error">>
    /\ "parse" \in Range(steps)
    /\ Errors(shown) /\ Warned(shown)

\* C4: for a payload with a positive count, a record whose dist, v_rel or
\* v_inf is not a number still gives a row at its position, NaN in that field
\* and every other field as the record has it; parse_data raises nothing.
C4_NumericCoercionNeverRaises ==
    (/\ op = "parse_data"
     /\ Conforming(arg)
     /\ \E i \in 1..Len(arg.data), c \in Range(NumericColumns) : to_numeric(Raw(arg, i, c)) = NaN) =>
        /\ res.exc = "none"
        /\ Len(res.fd.rows) = Len(arg.data)
        /\ \A i \in 1..Len(arg.data) : res.fd.rows[i] = RowFrom(arg, i)

\* C5: for a payload with count = N > 0 and N well-formed records, the output
\* has exactly N rows, and its i-th row is the i-th record, typed.
C5_RowPerRecordInOrder ==
    (op = "parse_data" /\ WellFormed(arg)) =>
        /\ res.exc = "none"
        /\ res.fd.columns = arg.fields
        /\ Len(res.fd.rows) = arg.count
        /\ \A i \in 1..arg.count : res.fd.rows[i] = RowFrom(arg, i)

\* two different well-formed records, the second with a NaN, parsed in order
C5_Witness ==
    /\ op = "parse_data"
    /\ WellFormed(arg)
    /\ arg.count = 2
    /\ arg.data[1] # arg.data[2]
    /\ to_numeric(Raw(arg, 2, "dist")) = NaN
    /\ res.exc = "none"
    /\ Len(res.fd.rows) = 2

\* C6, as claimed: the CSV export lists exactly des, cd, dist, v_rel, v_inf,
\* in that order.
C6_CsvFiveFields == out.shown => out.csv.header = TableColumns

\* C6, amended: the CSV export lists every field of the held row set, the
\* passed-through ones included, in the row set's field order, one line per
\* row; the table alone is cut to des, cd, dist, v_rel, v_inf in that order.
C6_CsvAllFields ==
    out.shown =>
        /\ out.csv.header = session_state["fd"].columns
        /\ Len(out.csv.lines) = Len(session_state["fd"].rows)
        /\ \A i \in 1..Len(out.csv.lines), j \in 1..Len(out.csv.header) :
              out.csv.lines[i][j] = session_state["fd"].rows[i][out.csv.header[j]]
        /\ out.table.frame.columns = TableColumns

\* an export that carries the passed-through field orbit_id
C6_Witness ==
    /\ out.shown
    /\ "orbit_id" \in Range(out.csv.header)
    /\ Len(out.csv.lines) >= 1
    /\ "orbit_id" \notin Range(out.table.frame.columns)

\* C7: combining a row set that holds no repeated row with itself gives
\* exactly that row set, in the same order.
C7_SelfCombineIsIdentity ==
    (op = "combine" /\ arg[1] = arg[2] /\ NoRepeats(arg[1].rows)) => res = arg[1]

\* two distinct rows, one with a NaN distance, combined with themselves
C7_Witness ==
    /\ op = "combine"
    /\ arg[1] = arg[2]
    /\ Len(arg[1].rows) = 2 /\ NoRepeats(arg[1].rows)
    /\ \E i \in 1..2 : arg[1].rows[i]["dist"] = NaN
    /\ res = arg[1]

\* C8: a fetch action for 'Both' issues exactly two requests, the NEO one and
\* then the Comet one, and goes on to the combine step; a fetch action for
\* NEO or for Comet issues exactly one request.
C8_RequestsPerFetchAction ==
    widgets.fetch_data =>
        /\ widgets.object_type = "Both" =>
              /\ Len(sent) = 2
              /\ FlagsOf(sent[1].params) = {"neo"}
              /\ FlagsOf(sent[2].params) = {"comet"}
              /\ "combine" \in Range(steps)
        /\ widgets.object_type \in {"NEO", "Comet"} => Len(sent) = 1

\* C9: for a payload with a positive count, a record whose cd does not match
\* YYYY-Mon-DD HH:MM still gives a row, with a missing marker in cd, and
\* parse_data completes.
C9_DateCoercionRecovered ==
    (/\ op = "parse_data"
     /\ Conforming(arg)
     /\ \E i \in 1..Len(arg.data) : ~to_datetime(Raw(arg, i, "cd")).ok) =>
        /\ res.exc = "none"
        /\ Len(res.fd.rows) = Len(arg.data)
        /\ \A i \in 1..Len(arg.data) :
              ~to_datetime(Raw(arg, i, "cd")).ok => res.fd.rows[i]["cd"].t = "nan"

\* what a completed fetch action leaves in the session: the row set of the run
\* (an empty one when nothing came back), the body and the unit of the run
Triple(rows, w) ==
    [k \in {"fd", "body_display", "dist_unit"} |->
        CASE k = "fd"           -> IF empty(rows) THEN EmptyFrame ELSE rows
          [] k = "body_display" -> w.body_display
          [] k = "dist_unit"    -> w.dist_unit]

C10Step ==
    /\ "store" \in Range(steps') => session_state' = Triple(fd', widgets')
    /\ "store" \notin Range(steps') => session_state' = session_state
    /\ out'.shown =>
          /\ out'.table.unit = session_state'["dist_unit"]
          /\ out'.chart.unit = session_state'["dist_unit"]
          /\ out'.chart.title = session_state'["body_display"]
          /\ out'.table.frame.rows = Project(session_state'["fd"], TableColumns).rows

\* C10: every run that completes a fetch action replaces the held row set,
\* body name and unit together, by those of that run (an empty row set when
\* the fetch failed or returned nothing); every other run, whatever the
\* sidebar holds, leaves all three as they were; the table and the chart are
\* labelled with the held unit and body.
C10_SessionTripleOfLastFetch == [][C10Step]_vars

\* a rerun without a click, the sidebar's unit and body changed since the
\* fetch: the table still shows the held rows under the held unit
C10_Witness ==
    /\ ~widgets.fetch_data
    /\ out.shown
    /\ widgets.dist_unit # session_state["dist_unit"]
    /\ widgets.body_display # session_state["body_display"]
    /\ out.table.unit = session_state["dist_unit"]

====
